---- MODULE Spec2Model ----
(***************************************************************************)
(* A model of the sjson package (src/sjson/__init__.py): the two input     *)
(* streams, the recursive-descent decoder (load / loads) and the encoder   *)
(* (dump / dumps).                                                         *)
(*                                                                         *)
(* A byte is a one-character string, a bytes object a sequence of them.    *)
(* Every operation of the decoder is an operator from a stream state to a  *)
(* record [st, ret, exc]: the stream after the call, the value returned    *)
(* and the exception raised (NoExc when the call returned).                *)
(***************************************************************************)
EXTENDS Integers, Sequences, FiniteSets, TLC

VARIABLES text, loaded, streamed, indent, dumped, reloaded,
          stream, viaRead, viaSkip, peeked

vars == <<text, loaded, streamed, indent, dumped, reloaded, stream, viaRead, viaSkip, peeked>>

----------------------------------------------------------------------------
(* Python values *)

\* None, as returned by peek(..., allow_end_of_stream=True) at the end
None == <<"None">>

\* the decoded value tree: every value has the same fields
Value(t, n, s, keys, kids) == [t |-> t, n |-> n, s |-> s, keys |-> keys, kids |-> kids]

PyNone == Value("null", 0, <<>>, <<>>, <<>>)

PyBool(b) == Value("bool", IF b THEN 1 ELSE 0, <<>>, <<>>, <<>>)

PyInt(n) == Value("int", n, <<>>, <<>>, <<>>)

\* a float is kept as the text Python prints for it
PyFloat(s) == Value("float", 0, s, <<>>, <<>>)

PyStr(s) == Value("str", 0, s, <<>>, <<>>)

PyList(items) == Value("list", 0, <<>>, <<>>, items)

\* an OrderedDict: the keys in iteration order and the value of each
PyDict(keys, vals) == Value("map", 0, <<>>, keys, vals)

----------------------------------------------------------------------------
(* Exceptions and call results *)

NoExc == [type |-> "none", msg |-> "", line |-> 0, column |-> 0]

ParseException(msg, loc) ==
    [type |-> "ParseException", msg |-> msg, line |-> loc.line, column |-> loc.column]

AssertionError == [type |-> "AssertionError", msg |-> "", line |-> 0, column |-> 0]

Return(st, ret) == [st |-> st, ret |-> ret, exc |-> NoExc]

Raise(st, exc) == [st |-> st, ret |-> None, exc |-> exc]

Raised(r) == r.exc.type # "none"

\* r, then F on what r returned, unless r raised
Then(r, F(_)) == IF Raised(r) THEN r ELSE F(r)

----------------------------------------------------------------------------
(* The input streams.  kind "memory" is MemoryInputStream: buf is _stream  *)
(* and pos is _current_index.  kind "buffer" is ByteBufferInputStream over *)
(* an io.BufferedReader: pos is the number of bytes the reader has handed  *)
(* out, line and column are _line and _column.  The inputs of the model    *)
(* are shorter than the reader's buffer, so BufferedReader.peek returns    *)
(* every byte that is left.                                                *)

MemoryInputStream(s) == [kind |-> "memory", buf |-> s, pos |-> 0, line |-> 1, column |-> 1]

ByteBufferInputStream(s) == [kind |-> "buffer", buf |-> s, pos |-> 0, line |-> 1, column |-> 1]

Min(a, b) == IF a < b THEN a ELSE b

\* Python's s[i:j] for 0 <= i, 0 <= j
Slice(s, i, j) == SubSeq(s, i + 1, Min(j, Len(s)))

\* the location after the bytes of s, starting from loc
RECURSIVE Advance(_, _)
Advance(loc, s) ==
    IF s = <<>> THEN loc
    ELSE Advance(IF Head(s) = "\n"
                 THEN [line |-> loc.line + 1, column |-> 1]
                 ELSE [line |-> loc.line, column |-> loc.column + 1],
                 Tail(s))

get_location(st) ==
    IF st.kind = "memory"
    THEN Advance([line |-> 1, column |-> 1], Slice(st.buf, 0, st.pos))
    ELSE [line |-> st.line, column |-> st.column]

_raise_end_of_stream_exception(st) ==
    Raise(st, ParseException("Unexpected end-of-stream", get_location(st)))

read(st, count) ==
    IF st.kind = "memory"
    THEN LET end_index == st.pos + count
         IN  IF end_index > Len(st.buf)
             THEN _raise_end_of_stream_exception(st)
             ELSE Return([st EXCEPT !.pos = end_index], Slice(st.buf, st.pos, end_index))
    ELSE LET result == Slice(st.buf, st.pos, st.pos + count)
             taken  == [st EXCEPT !.pos = st.pos + Len(result)]
             loc    == Advance([line |-> st.line, column |-> st.column], result)
         IN  IF Len(result) < count
             THEN _raise_end_of_stream_exception(taken)
             ELSE Return([taken EXCEPT !.line = loc.line, !.column = loc.column], result)

peek(st, count, allow_end_of_stream) ==
    IF st.kind = "memory"
    THEN LET end_index == st.pos + count
         IN  IF end_index > Len(st.buf)
             THEN IF allow_end_of_stream
                  THEN Return(st, None)
                  ELSE _raise_end_of_stream_exception(st)
             ELSE Return(st, Slice(st.buf, st.pos, end_index))
    ELSE LET result == Slice(st.buf, st.pos, Len(st.buf))
         IN  IF result = <<>>
             THEN IF allow_end_of_stream
                  THEN Return(st, None)
                  ELSE _raise_end_of_stream_exception(st)
             ELSE Return(st, Slice(result, 0, count))

skip(st, count) ==
    IF st.kind = "memory"
    THEN Return([st EXCEPT !.pos = st.pos + count], None)
    ELSE Then(read(st, count), LAMBDA r : Return(r.st, None))

----------------------------------------------------------------------------
(* Whitespace and comments *)

_WHITESPACE_SET == {<<" ">>, <<"\t">>, <<"\n">>, <<"\r">>}

_is_whitespace(char) == char \in _WHITESPACE_SET

\* the loop of _skip_c_style_comment, after the comment start was skipped
RECURSIVE CStyleLoop(_, _)
CStyleLoop(st, comment_start_location) ==
    Then(peek(st, 1, TRUE), LAMBDA next_char :
        IF next_char.ret = <<"*">>
        THEN IF peek(st, 2, TRUE).ret = <<"*", "/">>
             THEN skip(st, 2)
             ELSE Then(skip(st, 1), LAMBDA r1 :
                  Then(skip(r1.st, 1), LAMBDA r2 :
                  CStyleLoop(r2.st, comment_start_location)))
        ELSE IF next_char.ret = None
        THEN Raise(st, ParseException("Could not find closing '*/' for comment",
                                      comment_start_location))
        ELSE Then(skip(st, 1), LAMBDA r : CStyleLoop(r.st, comment_start_location)))

_skip_c_style_comment(st) ==
    Then(skip(st, 2), LAMBDA r : CStyleLoop(r.st, get_location(st)))

RECURSIVE CppStyleLoop(_)
CppStyleLoop(st) ==
    Then(peek(st, 1, TRUE), LAMBDA next_char :
        IF next_char.ret = None \/ next_char.ret = <<"\n">>
        THEN Return(st, None)
        ELSE Then(skip(st, 1), LAMBDA r : CppStyleLoop(r.st)))

_skip_cpp_style_comment(st) ==
    Then(skip(st, 2), LAMBDA r : CppStyleLoop(r.st))

\* _skip_whitespace returns next_char
RECURSIVE _skip_whitespace(_)
_skip_whitespace(st) ==
    Then(peek(st, 1, TRUE), LAMBDA next_char :
        IF ~_is_whitespace(next_char.ret)
        THEN IF next_char.ret = <<"/">> /\ peek(st, 2, TRUE).ret = <<"/", "*">>
             THEN Then(_skip_c_style_comment(st), LAMBDA r : _skip_whitespace(r.st))
             ELSE IF next_char.ret = <<"/">> /\ peek(st, 2, TRUE).ret = <<"/", "/">>
             THEN Then(_skip_cpp_style_comment(st), LAMBDA r : _skip_whitespace(r.st))
             ELSE Return(st, next_char.ret)
        ELSE Then(skip(st, 1), LAMBDA r : _skip_whitespace(r.st)))

\* the message of _consume: what.decode('utf-8') between the quotes
ExpectedToRead(what) ==
    CASE what = <<"t", "r", "u", "e">> -> "Expected to read 'true'"
      [] what = <<"f", "a", "l", "s", "e">> -> "Expected to read 'false'"
      [] what = <<"n", "u", "l", "l">> -> "Expected to read 'null'"
      [] what = <<"=">> -> "Expected to read '='"
      [] what = <<":">> -> "Expected to read ':'"
      [] OTHER -> "Expected to read"

_consume(st, what) ==
    Then(_skip_whitespace(st), LAMBDA r :
    Then(peek(r.st, Len(what), FALSE), LAMBDA p :
        IF p.ret # what
        THEN Raise(r.st, ParseException(ExpectedToRead(what), get_location(r.st)))
        ELSE skip(r.st, Len(what))))

_skip_characters_and_whitespace(st, num_char_to_skip) ==
    Then(skip(st, num_char_to_skip), LAMBDA r : _skip_whitespace(r.st))

----------------------------------------------------------------------------
(* Strings *)

Letters ==
    {"a", "b", "c", "d", "e", "f", "g", "h", "i", "j", "k", "l", "m",
     "n", "o", "p", "q", "r", "s", "t", "u", "v", "w", "x", "y", "z",
     "A", "B", "C", "D", "E", "F", "G", "H", "I", "J", "K", "L", "M",
     "N", "O", "P", "Q", "R", "S", "T", "U", "V", "W", "X", "Y", "Z"}

Digits == {"0", "1", "2", "3", "4", "5", "6", "7", "8", "9"}

_IDENTIFIER_SET == Letters \cup Digits \cup {"_"}

_is_identifier(obj) == obj[1] \in _IDENTIFIER_SET

\* the byte 0x08, which a string of the model cannot spell
BACKSPACE == "\\b"

_decode_escaped_character(char) ==
    CASE char = <<"b">> -> <<BACKSPACE>>
      [] char = <<"n">> -> <<"\n">>
      [] char = <<"t">> -> <<"\t">>
      [] char = <<"\\">> \/ char = <<"\"">> -> char
      [] OTHER -> <<"\\">> \o char

Quotes(n) == [i \in 1..n |-> "\""]

\* the end of the loop of _decode_string: skip count bytes and return result
SkipAndReturn(st, count, result) ==
    Then(skip(st, count), LAMBDA r : Return(r.st, result))

\* the while loop of _decode_string; raw_quotes is "None", "Python" or "Lua"
RECURSIVE StringLoop(_, _, _, _)
StringLoop(st, result, raw_quotes, parse_as_identifier) ==
    Then(peek(st, 1, FALSE), LAMBDA next_char :
        IF parse_as_identifier /\ ~_is_identifier(next_char.ret)
        THEN Return(st, result)
        ELSE IF raw_quotes = "Python" /\ next_char.ret = <<"\"">>
        THEN Then(peek(st, 3, FALSE), LAMBDA p3 :
                 IF p3.ret = Quotes(3)
                 THEN IF peek(st, 5, TRUE).ret = Quotes(5)
                      THEN SkipAndReturn(st, 5, result \o Quotes(2))
                      ELSE IF peek(st, 4, TRUE).ret = Quotes(4)
                      THEN SkipAndReturn(st, 4, result \o next_char.ret)
                      ELSE SkipAndReturn(st, 3, result)
                 ELSE Then(skip(st, 1), LAMBDA r :
                      StringLoop(r.st, result \o next_char.ret, raw_quotes,
                                 parse_as_identifier)))
        ELSE IF raw_quotes = "Lua" /\ next_char.ret = <<"]">>
        THEN Then(peek(st, 3, FALSE), LAMBDA p3 :
                 IF p3.ret = <<"]", "=", "]">>
                 THEN SkipAndReturn(st, 3, result)
                 ELSE Then(skip(st, 1), LAMBDA r :
                      StringLoop(r.st, result \o next_char.ret, raw_quotes,
                                 parse_as_identifier)))
        ELSE IF raw_quotes = "None" /\ next_char.ret = <<"\"">>
        THEN Then(read(st, 1), LAMBDA r : Return(r.st, result))
        ELSE IF raw_quotes = "None" /\ next_char.ret = <<"\\">>
        THEN Then(skip(st, 1), LAMBDA r :
             Then(read(r.st, 1), LAMBDA c :
             StringLoop(c.st, result \o _decode_escaped_character(c.ret), raw_quotes,
                        parse_as_identifier)))
        ELSE Then(skip(st, 1), LAMBDA r :
             StringLoop(r.st, result \o next_char.ret, raw_quotes, parse_as_identifier)))

\* _decode_string once the whitespace is skipped: the opening quote
StringStart(st, allow_identifier) ==
    Then(peek(st, 1, FALSE), LAMBDA p :
        IF ~allow_identifier /\ p.ret # <<"\"">> /\ p.ret # <<"[">>
        THEN Raise(st, ParseException("Quoted string expected", get_location(st)))
        ELSE IF p.ret # <<"\"">> /\ p.ret # <<"[">>
        THEN StringLoop(st, <<>>, "None", TRUE)
        ELSE Then(peek(st, 3, FALSE), LAMBDA p3 :
                 IF p3.ret = Quotes(3)
                 THEN Then(skip(st, 3), LAMBDA r : StringLoop(r.st, <<>>, "Python", FALSE))
                 ELSE IF p3.ret = <<"[", "=", "[">>
                 THEN Then(skip(st, 3), LAMBDA r : StringLoop(r.st, <<>>, "Lua", FALSE))
                 ELSE IF p.ret = <<"\"">>
                 THEN Then(skip(st, 1), LAMBDA r : StringLoop(r.st, <<>>, "None", FALSE))
                 ELSE Raise(st, ParseException(
                          "Invalid quoted string, must start with \",\"\"\", or [=[",
                          get_location(st)))))

_decode_string(st, allow_identifier) ==
    Then(_skip_whitespace(st), LAMBDA r : StringStart(r.st, allow_identifier))

----------------------------------------------------------------------------
(* Numbers: int(value) and float(value) of the standard library, for the   *)
(* ASCII bytes of the model.                                               *)

DigitValue(c) ==
    CASE c = "0" -> 0 [] c = "1" -> 1 [] c = "2" -> 2 [] c = "3" -> 3 [] c = "4" -> 4
      [] c = "5" -> 5 [] c = "6" -> 6 [] c = "7" -> 7 [] c = "8" -> 8 [] c = "9" -> 9

DigitChar(d) ==
    CASE d = 0 -> "0" [] d = 1 -> "1" [] d = 2 -> "2" [] d = 3 -> "3" [] d = 4 -> "4"
      [] d = 5 -> "5" [] d = 6 -> "6" [] d = 7 -> "7" [] d = 8 -> "8" [] d = 9 -> "9"

\* digits with single underscores between them: digit (["_"] digit)*
IsDigitPart(s) ==
    /\ s # <<>>
    /\ \A i \in 1..Len(s) : s[i] \in Digits \cup {"_"}
    /\ s[1] # "_" /\ s[Len(s)] # "_"
    /\ \A i \in 1..(Len(s) - 1) : ~(s[i] = "_" /\ s[i + 1] = "_")

HasSign(s) == s # <<>> /\ s[1] \in {"+", "-"}

Unsigned(s) == IF HasSign(s) THEN Tail(s) ELSE s

\* the number a digit part spells
RECURSIVE DigitsValue(_, _)
DigitsValue(s, acc) ==
    IF s = <<>> THEN acc
    ELSE DigitsValue(Tail(s), IF Head(s) = "_" THEN acc ELSE 10 * acc + DigitValue(Head(s)))

\* int(value) raises ValueError unless value is [sign] digitpart
IsIntLiteral(s) == IsDigitPart(Unsigned(s))

IntValue(s) ==
    IF HasSign(s) /\ s[1] = "-"
    THEN 0 - DigitsValue(Unsigned(s), 0)
    ELSE DigitsValue(Unsigned(s), 0)

\* str(n) of an int
RECURSIVE NatToStr(_)
NatToStr(n) == IF n < 10 THEN <<DigitChar(n)>> ELSE NatToStr(n \div 10) \o <<DigitChar(n % 10)>>

IntToStr(n) == IF n < 0 THEN <<"-">> \o NatToStr(0 - n) ELSE NatToStr(n)

\* the first index of s holding a byte of set, or 0
FirstIn(s, set) ==
    IF \E i \in 1..Len(s) : s[i] \in set
    THEN CHOOSE i \in 1..Len(s) : s[i] \in set /\ \A j \in 1..(i - 1) : s[j] \notin set
    ELSE 0

\* the parts of [sign] int [. frac] [e [sign] exp]
Mantissa(s) ==
    LET u == Unsigned(s)
        e == FirstIn(u, {"e", "E"})
    IN  IF e = 0 THEN u ELSE SubSeq(u, 1, e - 1)

Exponent(s) ==
    LET u == Unsigned(s)
        e == FirstIn(u, {"e", "E"})
    IN  IF e = 0 THEN <<>> ELSE SubSeq(u, e + 1, Len(u))

IntPart(s) ==
    LET m == Mantissa(s)
        d == FirstIn(m, {"."})
    IN  IF d = 0 THEN m ELSE SubSeq(m, 1, d - 1)

FracPart(s) ==
    LET m == Mantissa(s)
        d == FirstIn(m, {"."})
    IN  IF d = 0 THEN <<>> ELSE SubSeq(m, d + 1, Len(m))

\* float(value) raises ValueError unless value is a decimal literal; the
\* names inf, infinity and nan never reach float(): they hold no ".", "e", "E"
IsFloatLiteral(s) ==
    LET m == Mantissa(s)
        hasDot == FirstIn(m, {"."}) # 0
        hasExp == FirstIn(Unsigned(s), {"e", "E"}) # 0
    IN  /\ IF hasDot
           THEN /\ IntPart(s) # <<>> \/ FracPart(s) # <<>>
                /\ IntPart(s) = <<>> \/ IsDigitPart(IntPart(s))
                /\ FracPart(s) = <<>> \/ IsDigitPart(FracPart(s))
           ELSE IsDigitPart(m)
        /\ hasExp => IsDigitPart(Unsigned(Exponent(s)))

RECURSIVE StripUnderscores(_)
StripUnderscores(s) ==
    IF s = <<>> THEN <<>>
    ELSE IF Head(s) = "_" THEN StripUnderscores(Tail(s))
    ELSE <<Head(s)>> \o StripUnderscores(Tail(s))

RECURSIVE StripLeadingZeros(_)
StripLeadingZeros(s) ==
    IF s # <<>> /\ Head(s) = "0" THEN StripLeadingZeros(Tail(s)) ELSE s

RECURSIVE StripTrailingZeros(_)
StripTrailingZeros(s) ==
    IF s # <<>> /\ s[Len(s)] = "0" THEN StripTrailingZeros(SubSeq(s, 1, Len(s) - 1)) ELSE s

Zeros(n) == [i \in 1..n |-> "0"]

\* repr(float(value)): the shortest digits that give the same double are the
\* literal's own digits (it has fewer than 16, and its exponent is far from
\* the ends of the double range in every input of the model)
FloatRepr(s) ==
    LET ip     == StripUnderscores(IntPart(s))
        fp     == StripUnderscores(FracPart(s))
        ex     == Exponent(s)
        e      == IF ex = <<>> THEN 0 ELSE IntValue(ex)
        lead   == StripLeadingZeros(ip \o fp)
        digits == StripTrailingZeros(lead)
        \* the value is 0.digits * 10^decpt
        decpt  == Len(ip) - (Len(ip \o fp) - Len(lead)) + e
        nd     == Len(digits)
        sign   == IF HasSign(s) /\ s[1] = "-" THEN <<"-">> ELSE <<>>
        x      == decpt - 1
        ax     == IF x < 0 THEN 0 - x ELSE x
    IN  IF digits = <<>> THEN sign \o <<"0", ".", "0">>
        ELSE IF x > 308 THEN sign \o <<"i", "n", "f">>
        ELSE IF -4 < decpt /\ decpt <= 16
        THEN IF decpt <= 0
             THEN sign \o <<"0", ".">> \o Zeros(0 - decpt) \o digits
             ELSE IF decpt >= nd
             THEN sign \o digits \o Zeros(decpt - nd) \o <<".", "0">>
             ELSE sign \o SubSeq(digits, 1, decpt) \o <<".">> \o SubSeq(digits, decpt + 1, nd)
        ELSE sign \o <<digits[1]>>
                  \o (IF nd > 1 THEN <<".">> \o Tail(digits) ELSE <<>>)
                  \o <<"e", IF x < 0 THEN "-" ELSE "+">>
                  \o (IF ax < 10 THEN <<"0">> ELSE <<>>) \o NatToStr(ax)

_NUMBER_SEPARATOR_SET == _WHITESPACE_SET \cup {<<",">>, <<"]">>, <<"}">>, None}

\* the while loop of _decode_number: the run of bytes up to a separator
RECURSIVE NumberLoop(_, _, _)
NumberLoop(st, next_char, number_bytes) ==
    IF next_char \in _NUMBER_SEPARATOR_SET
    THEN Return(st, number_bytes)
    ELSE Then(skip(st, 1), LAMBDA r :
         NumberLoop(r.st, peek(r.st, 1, TRUE).ret, number_bytes \o next_char))

ValueError == [type |-> "ValueError", msg |-> "", line |-> 0, column |-> 0]

\* a decoder that takes a run that is no number as a string: WordValue
\* tells it from _decode_number
DecodeNumberOrWord(st, next_char) ==
    Then(NumberLoop(st, next_char, <<>>), LAMBDA value :
        IF IsFloatLiteral(value.ret)
        THEN Return(value.st, PyFloat(FloatRepr(value.ret)))
        ELSE IF IsIntLiteral(value.ret)
        THEN Return(value.st, PyInt(IntValue(value.ret)))
        ELSE Return(value.st, PyStr(value.ret)))

_decode_number(st, next_char) ==
    Then(NumberLoop(st, next_char, <<>>), LAMBDA value :
        IF FirstIn(value.ret, {".", "e", "E"}) # 0
        THEN IF IsFloatLiteral(value.ret)
             THEN Return(value.st, PyFloat(FloatRepr(value.ret)))
             ELSE Raise(value.st, ValueError)
        ELSE IF IsIntLiteral(value.ret)
             THEN Return(value.st, PyInt(IntValue(value.ret)))
             ELSE Raise(value.st, ValueError))

----------------------------------------------------------------------------
(* Maps, lists and values *)

\* the index of key in keys, or 0
IndexOf(keys, key) ==
    IF \E i \in 1..Len(keys) : keys[i] = key
    THEN CHOOSE i \in 1..Len(keys) : keys[i] = key
    ELSE 0

\* a dict that moves an overwritten key to the end, as move_to_end would:
\* KeyOrder tells it from SetItem
SetItemMoveToEnd(d, key, value) ==
    LET i == IndexOf(d.keys, key)
        Without(s) == [j \in 1..(Len(s) - 1) |-> IF j < i THEN s[j] ELSE s[j + 1]]
    IN  IF i = 0
        THEN PyDict(Append(d.keys, key), Append(d.kids, value))
        ELSE PyDict(Append(Without(d.keys), key), Append(Without(d.kids), value))

\* result[key] = value on an OrderedDict
SetItem(d, key, value) ==
    LET i == IndexOf(d.keys, key)
    IN  IF i = 0
        THEN PyDict(Append(d.keys, key), Append(d.kids, value))
        ELSE PyDict(d.keys, [d.kids EXCEPT ![i] = value])

RECURSIVE _parse(_), DictLoop(_, _, _, _), ListLoop(_, _, _)

\* the optional "," after a value; returns next_char
Comma(st) ==
    Then(_skip_whitespace(st), LAMBDA n :
        IF n.ret = <<",">> THEN _skip_characters_and_whitespace(n.st, 1) ELSE n)

\* the separator after a key, consumed if there is one
Separator(st) ==
    Then(_skip_whitespace(st), LAMBDA n :
        IF n.ret = <<"=">> \/ n.ret = <<":">> THEN _consume(n.st, n.ret) ELSE n)

\* the while loop of _decode_dict
DictLoop(st, next_char, result, delimited) ==
    IF ~delimited /\ next_char = None
    THEN Return(st, result)
    ELSE IF next_char = <<"}">>
    THEN SkipAndReturn(st, 1, result)
    ELSE Then(_decode_string(st, TRUE), LAMBDA key :
         Then(Separator(key.st), LAMBDA sep :
         Then(_parse(sep.st), LAMBDA value :
         Then(Comma(value.st), LAMBDA c :
         DictLoop(c.st, c.ret, SetItem(result, key.ret, value.ret), delimited)))))

_decode_dict(st, delimited) ==
    Then(peek(st, 1, FALSE), LAMBDA p :
    Then(IF p.ret = <<"{">> THEN skip(st, 1) ELSE p, LAMBDA open :
    Then(_skip_whitespace(open.st), LAMBDA w :
    DictLoop(w.st, w.ret, PyDict(<<>>, <<>>), delimited))))

\* the while loop of _parse_list
ListLoop(st, next_char, result) ==
    IF next_char = <<"]">>
    THEN SkipAndReturn(st, 1, PyList(result))
    ELSE Then(_parse(st), LAMBDA value :
         Then(Comma(value.st), LAMBDA c :
         ListLoop(c.st, c.ret, Append(result, value.ret))))

_parse_list(st) ==
    Then(_skip_characters_and_whitespace(st, 1), LAMBDA r : ListLoop(r.st, r.ret, <<>>))

\* a keyword of _parse: _consume(stream, what), then the literal
Keyword(st, what, literal) ==
    Then(_consume(st, what), LAMBDA r : Return(r.st, literal))

\* _decode_string(stream) as a value of _parse
String(st) ==
    Then(_decode_string(st, FALSE), LAMBDA r : Return(r.st, PyStr(r.ret)))

\* a decoder that takes every "[" for a list: BracketString tells it from
\* Bracket
BracketAlwaysList(st) == _parse_list(st)

\* the "[" case of _parse: a list, or a [=[ raw string
Bracket(st) ==
    Then(peek(st, 2, FALSE), LAMBDA p :
        IF Len(p.ret) # 2 THEN Raise(st, AssertionError)
        ELSE IF p.ret[2] # "=" THEN _parse_list(st)
        ELSE String(st))

\* the try / except ValueError around _decode_number
InvalidCharacter(r) ==
    IF r.exc.type = "ValueError"
    THEN Raise(r.st, ParseException("Invalid character", get_location(r.st)))
    ELSE r

_parse(st) ==
    Then(_skip_whitespace(st), LAMBDA w :
        CASE w.ret = <<"t">> -> Keyword(w.st, <<"t", "r", "u", "e">>, PyBool(TRUE))
          [] w.ret = <<"f">> -> Keyword(w.st, <<"f", "a", "l", "s", "e">>, PyBool(FALSE))
          [] w.ret = <<"n">> -> Keyword(w.st, <<"n", "u", "l", "l">>, PyNone)
          [] w.ret = <<"{">> -> _decode_dict(w.st, TRUE)
          [] w.ret = <<"\"">> -> String(w.st)
          [] w.ret = <<"[">> -> Bracket(w.st)
          [] OTHER -> InvalidCharacter(_decode_number(w.st, w.ret)))

\* what a call of load or loads ends with; pos is how far the stream was read
Outcome(r) ==
    IF Raised(r)
    THEN [status |-> "raised", value |-> PyNone, exc |-> r.exc, pos |-> r.st.pos]
    ELSE [status |-> "returned", value |-> r.ret, exc |-> NoExc, pos |-> r.st.pos]

NotCalled == [status |-> "none", value |-> PyNone, exc |-> NoExc, pos |-> 0]

load(s) == Outcome(_decode_dict(ByteBufferInputStream(s), FALSE))

loads(s) == Outcome(_decode_dict(MemoryInputStream(s), FALSE))

----------------------------------------------------------------------------
(* The encoder.  A str is a sequence of one-character strings, like bytes. *)

\* obj.replace(key, value) for a one-character key
RECURSIVE Replace(_, _, _)
Replace(obj, key, value) ==
    IF obj = <<>> THEN <<>>
    ELSE (IF Head(obj) = key THEN value ELSE <<Head(obj)>>) \o Replace(Tail(obj), key, value)

\* the substitutions of _ESCAPE_CHARACTER_SET, in the order of the dict
EscapeCharacters(obj) ==
    Replace(Replace(Replace(Replace(obj, "\n", <<"\\", "n">>),
                            BACKSPACE, <<"\\", "b">>),
                    "\t", <<"\\", "t">>),
            "\"", <<"\\", "\"">>)

\* quotes for whitespace only: KeyQuoting tells it from NeedsQuotes
NeedsQuotesForWhitespace(obj) == \E i \in 1..Len(obj) : _is_whitespace(<<obj[i]>>)

\* the test of _escape_string that forces the quotes
NeedsQuotes(obj) == \E i \in 1..Len(obj) : obj[i] \notin _IDENTIFIER_SET

_escape_string(obj, quote) ==
    LET q == IF quote \/ NeedsQuotes(obj) THEN <<"\"">> ELSE <<>>
    IN  q \o EscapeCharacters(obj) \o q

_encode_key(k) == _escape_string(k, FALSE)

\* Python's indent * level
RECURSIVE _indent(_, _)
_indent(level, unit) == IF level <= 0 THEN <<>> ELSE unit \o _indent(level - 1, unit)

RECURSIVE _encode(_, _, _), EncodeItems(_, _, _, _), EncodePairs(_, _, _, _)

\* the for loop of _encode_list, from element i on
EncodeItems(obj, i, unit, level) ==
    IF i > Len(obj.kids) THEN <<>>
    ELSE (IF i = 1 THEN <<>> ELSE <<",", " ">>)
         \o _encode(obj.kids[i], unit, level + 1)
         \o EncodeItems(obj, i + 1, unit, level)

_encode_list(obj, unit, level) == <<"[">> \o EncodeItems(obj, 1, unit, level) \o <<"]">>

\* the for loop of _encode_dict, from pair i on
EncodePairs(obj, i, unit, level) ==
    IF i > Len(obj.keys) THEN <<>>
    ELSE (IF i = 1 THEN <<>> ELSE <<"\n">>)
         \o _indent(level, unit)
         \o _encode_key(obj.keys[i])
         \o <<" ", "=", " ">>
         \o _encode(obj.kids[i], unit, level + 1)
         \o EncodePairs(obj, i + 1, unit, level)

_encode_dict(obj, unit, level) ==
    (IF level > 0 THEN <<"{", "\n">> ELSE <<>>)
    \o EncodePairs(obj, 1, unit, level)
    \o <<"\n">>
    \o _indent(level - 1, unit)
    \o (IF level > 0 THEN <<"}">> ELSE <<>>)

_encode(obj, unit, level) ==
    CASE obj.t = "null" -> <<"n", "u", "l", "l">>
      [] obj.t = "bool" -> IF obj.n = 1 THEN <<"t", "r", "u", "e">>
                           ELSE <<"f", "a", "l", "s", "e">>
      [] obj.t = "int" -> IntToStr(obj.n)
      [] obj.t = "float" -> obj.s
      [] obj.t = "str" -> _escape_string(obj.s, TRUE)
      [] obj.t = "list" -> _encode_list(obj, unit, level)
      [] obj.t = "map" -> _encode_dict(obj, unit, level)

\* the indent argument of dump: None, an int or a str
IndentNone == [kind |-> "None", n |-> 0, s |-> <<>>]

IndentInt(n) == [kind |-> "int", n |-> n, s |-> <<>>]

IndentStr(s) == [kind |-> "str", n |-> 0, s |-> s]

\* an indent that takes a negative number for its magnitude:
\* CanonicalLayout tells it from IndentUnit
IndentUnitMagnitude(ind) ==
    IF ind.kind = "str" THEN ind.s
    ELSE [i \in 1..(IF ind.n < 0 THEN 0 - ind.n ELSE ind.n) |-> " "]

\* the one-level indent that dump derives from its argument
IndentUnit(ind) ==
    IF ind.kind = "None" \/ (ind.kind = "int" /\ ind.n = 0) \/ (ind.kind = "str" /\ ind.s = <<>>)
    THEN <<>>
    ELSE IF ind.kind = "int"
    THEN [i \in 1..(IF ind.n < 0 THEN 0 ELSE ind.n) |-> " "]
    ELSE ind.s

dumps(obj, ind) == _encode(obj, IndentUnit(ind), 0)

----------------------------------------------------------------------------
(* The callers.  A caller holds a text, decodes it with loads (from        *)
(* memory) and with load (from a stream), encodes the decoded value with   *)
(* dumps and decodes the encoded text again.                               *)

Indents == {IndentNone, IndentInt(0), IndentInt(2), IndentInt(-1), IndentStr(<<"\t">>)}

NotDumped == [done |-> FALSE, out |-> <<>>]

\* a stream a caller drives by hand, and what its last operations gave
streamVars == <<stream, viaRead, viaSkip, peeked>>

\* a caller about to decode one of the given texts
InitWith(texts) ==
    /\ text \in texts
    /\ loaded = NotCalled
    /\ streamed = NotCalled
    /\ indent = IndentNone
    /\ dumped = NotDumped
    /\ reloaded = NotCalled
    /\ stream = MemoryInputStream(<<>>)
    /\ viaRead = Return(stream, <<>>)
    /\ viaSkip = Return(stream, <<>>)
    /\ peeked = Return(stream, <<>>)

\* sjson.loads(text)
Loads ==
    /\ loaded.status = "none"
    /\ loaded' = loads(text)
    /\ UNCHANGED <<text, streamed, indent, dumped, reloaded>>
    /\ UNCHANGED streamVars

\* sjson.load(io.BytesIO(text))
Load ==
    /\ streamed.status = "none"
    /\ streamed' = load(text)
    /\ UNCHANGED <<text, loaded, indent, dumped, reloaded>>
    /\ UNCHANGED streamVars

\* sjson.dumps(value, ind) of the value that loads returned
Dumps(ind) ==
    /\ loaded.status = "returned"
    /\ ~dumped.done
    /\ indent' = ind
    /\ dumped' = [done |-> TRUE, out |-> dumps(loaded.value, ind)]
    /\ UNCHANGED <<text, loaded, streamed, reloaded>>
    /\ UNCHANGED streamVars

\* sjson.loads of the text that dumps returned
LoadsDumped ==
    /\ dumped.done
    /\ reloaded.status = "none"
    /\ reloaded' = loads(dumped.out)
    /\ UNCHANGED <<text, loaded, streamed, indent, dumped>>
    /\ UNCHANGED streamVars

Next ==
    \/ Loads
    \/ Load
    \/ \E ind \in Indents : Dumps(ind)
    \/ LoadsDumped

----------------------------------------------------------------------------
(* A caller of the streams: it opens a stream of either kind on a text and *)
(* reads, skips and peeks.  Each step keeps what read(count) and what      *)
(* skip(count) give on the stream as it stands, and goes on with one.      *)

MaxCount == 2

Counts == 0..MaxCount

callerVars == <<loaded, streamed, indent, dumped, reloaded>>

\* a stream of either kind, just opened on one of the given texts
InitStream(texts) ==
    /\ text \in texts
    /\ loaded = NotCalled
    /\ streamed = NotCalled
    /\ indent = IndentNone
    /\ dumped = NotDumped
    /\ reloaded = NotCalled
    /\ stream \in {MemoryInputStream(text), ByteBufferInputStream(text)}
    /\ viaRead = Return(stream, <<>>)
    /\ viaSkip = Return(stream, <<>>)
    /\ peeked = Return(stream, <<>>)

\* the cursor has not left the text; past it the caller stops
Within == stream.pos <= Len(stream.buf)

\* stream.read(count)
ReadBytes(count) ==
    /\ Within
    /\ viaRead' = read(stream, count)
    /\ viaSkip' = skip(stream, count)
    /\ stream' = read(stream, count).st
    /\ UNCHANGED <<text, peeked>>
    /\ UNCHANGED callerVars

\* stream.skip(count)
SkipBytes(count) ==
    /\ Within
    /\ viaRead' = read(stream, count)
    /\ viaSkip' = skip(stream, count)
    /\ stream' = skip(stream, count).st
    /\ UNCHANGED <<text, peeked>>
    /\ UNCHANGED callerVars

\* stream.peek(count, allow_end_of_stream)
PeekBytes(count, allow_end_of_stream) ==
    /\ Within
    /\ peeked' = peek(stream, count, allow_end_of_stream)
    /\ UNCHANGED <<text, stream, viaRead, viaSkip>>
    /\ UNCHANGED callerVars

NextStream ==
    \/ \E count \in Counts : ReadBytes(count)
    \/ \E count \in Counts : SkipBytes(count)
    \/ \E count \in Counts, allow \in BOOLEAN : PeekBytes(count, allow)

----------------------------------------------------------------------------
(* The texts the callers decode *)

RECURSIVE Flatten(_)
Flatten(ss) == IF ss = <<>> THEN <<>> ELSE Head(ss) \o Flatten(Tail(ss))

\* the texts made of at most n of the given pieces
TextsOver(pieces, n) == {Flatten(ss) : ss \in UNION {[1..k -> pieces] : k \in 0..n}}

\* any short text of the grammar's tokens
MaxPieces == 4

Pieces ==
    {<<"a">>, <<"=">>, <<" ">>, <<"\n">>, <<"1">>, <<",">>, <<"[">>, <<"]">>,
     <<"{">>, <<"}">>, <<"\"">>, <<"t", "r", "u", "e">>}

PieceTexts == TextsOver(Pieces, MaxPieces)

Spec == InitWith(PieceTexts) /\ [][Next]_vars

\* a quoted string, as the value of a pair and as its key
MaxString == 4

StringPieces == {<<"x">>, <<" ">>, <<"-">>, <<"\\">>, <<"\"">>, <<"n">>}

StringTexts ==
    LET bodies == TextsOver(StringPieces, MaxString)
    IN  {<<"a", "=", "\"">> \o b \o <<"\"">> : b \in bodies}
        \cup {<<"\"">> \o b \o <<"\"", "=", "1">> : b \in bodies}
        \cup {b \o <<"=", "1">> : b \in bodies}

SpecStrings == InitWith(StringTexts) /\ [][Next]_vars

\* a run of pairs "k=v " of a fixed width, at the top level and in a map
MaxPairs == 3

PairKeys == {"a", "b", "c"}

PairDigits == {"1", "2"}

PairPieces == {<<k, "=", v, " ">> : k \in PairKeys, v \in PairDigits}

PairTexts ==
    LET runs == TextsOver(PairPieces, MaxPairs)
    IN  runs \cup {<<"m", "=", "{">> \o r \o <<"}">> : r \in runs}

SpecPairs == InitWith(PairTexts) /\ [][Next]_vars

\* maps and lists inside each other: at most one child of a map or list is
\* a map or list itself
MaxDepth == 3

Leaves == {<<"1">>, <<"\"", "x", "\"">>}

Nest(inner) ==
    {<<"{">> \o p \o <<"}">> :
        p \in {<<>>} \cup {<<"a", "=">> \o v : v \in inner}
                    \cup {<<"a", "=">> \o v \o <<" ", "b", "=", "1">> : v \in inner}
                    \cup {<<"b", "=", "1", " ", "a", "=">> \o v : v \in inner}}
    \cup {<<"[">> \o p \o <<"]">> :
        p \in {<<>>} \cup inner \cup {v \o <<",", "1">> : v \in inner}}

RECURSIVE Nested(_)
Nested(depth) == IF depth = 0 THEN Leaves ELSE Leaves \cup Nest(Nested(depth - 1))

NestedTexts ==
    {<<>>, <<" ">>} \cup {<<"k", "=">> \o v : v \in Nested(MaxDepth)}
                    \cup {<<"k", "=">> \o v \o <<" ", "j", "=", "1">> : v \in Nested(MaxDepth - 1)}

SpecNested == InitWith(NestedTexts) /\ [][Next]_vars

\* a pair whose value is a bare word, and what follows the word
MaxWord == 3

WordPieces ==
    {<<"x">>, <<"1">>, <<"e">>, <<"_">>, <<"t">>, <<"t", "r", "u", "e">>,
     <<"n", "u", "l", "l">>}

WordFollowers ==
    {<<>>, <<" ">>, <<"\n">>, <<",">>, <<" ", "b", "=", "1">>, <<" ", "=", "1">>, <<"=", "1">>}

WordTexts ==
    {<<"a", "=">> \o w \o f : w \in TextsOver(WordPieces, MaxWord), f \in WordFollowers}

SpecWords == InitWith(WordTexts) /\ [][Next]_vars

\* a triple-quoted string and the quotes that end it
MaxQuotePieces == 5

QuotePieces == {Quotes(3), Quotes(1), <<"b">>, <<"=", "1">>}

QuoteTexts ==
    {<<"a", "=">> \o Quotes(3) \o <<"x">> \o t : t \in TextsOver(QuotePieces, MaxQuotePieces)}

SpecQuotes == InitWith(QuoteTexts) /\ [][Next]_vars

\* a value that begins with "[=", and what follows it
MaxBracketPieces == 4

BracketPieces ==
    {<<"[">>, <<"]", "=", "]">>, <<"]">>, <<"=">>, <<"\\">>, <<"\"">>, <<"\n">>}

BracketTexts ==
    {<<"a", "=", "[", "=">> \o t : t \in TextsOver(BracketPieces, MaxBracketPieces)}

SpecBrackets == InitWith(BracketTexts) /\ [][Next]_vars

\* a comment between two tokens that whitespace separates
MaxComment == 3

CommentPieces == {<<"*">>, <<"x">>, <<"/">>, <<" ">>}

Comments ==
    {<<>>}
    \cup {<<"/", "*">> \o b \o <<"*", "/">> : b \in TextsOver(CommentPieces, MaxComment)}
    \cup {<<"/", "/">> \o b \o <<"\n">> : b \in TextsOver(CommentPieces, MaxComment)}

CommentSites ==
    {<<<<"a", " ">>, <<" ", "=", "1">>>>,
     <<<<"a", "=", " ">>, <<" ", "1">>>>,
     <<<<"a", "=", "1", " ">>, <<" ", "b", "=", "2">>>>,
     <<<<"a", "=", "[", "1", " ">>, <<" ", "2", "]">>>>}

CommentTexts == {site[1] \o c \o site[2] : site \in CommentSites, c \in Comments}

SpecComments == InitWith(CommentTexts) /\ [][Next]_vars

\* short texts of two lines for the streams
MaxStream == 3

StreamTexts == TextsOver({<<"x">>, <<"\n">>}, MaxStream)

SpecStreams == InitStream(StreamTexts) /\ [][NextStream]_vars

\* short texts that enter every loop of the decoder
MaxLoopPieces == 3

LoopPieces ==
    {<<"a">>, <<"=">>, <<" ">>, <<"\n">>, <<"1">>, <<",">>, <<"[">>, <<"]">>,
     <<"{">>, <<"}">>, <<"\"">>, <<"/">>, <<"*">>}

LoopTexts == TextsOver(LoopPieces, MaxLoopPieces)

\* what loads does on each of these texts, computed once
LoopOutcomes == [t \in LoopTexts |-> loads(t)]

\* the caller writes the text one byte after the other, before any call
Extend ==
    /\ loaded.status = "none"
    /\ streamed.status = "none"
    /\ Len(text) < MaxLoopPieces
    /\ \E p \in LoopPieces : text' = text \o p
    /\ UNCHANGED <<loaded, streamed, indent, dumped, reloaded>>
    /\ UNCHANGED streamVars

\* a call of loads that never ends: Terminates tells it from LoadsLoop
LoadsForever == loaded.status = "none" /\ UNCHANGED vars

\* sjson.loads(text) on one of these texts
LoadsLoop ==
    /\ loaded.status = "none"
    /\ loaded' = LoopOutcomes[text]
    /\ UNCHANGED <<text, streamed, indent, dumped, reloaded>>
    /\ UNCHANGED streamVars

NextLoops ==
    \/ Extend
    \/ LoadsLoop
    \/ Load
    \/ \E ind \in Indents : Dumps(ind)
    \/ LoadsDumped

\* the interpreter runs a call of loads until it ends: the caller is fair to it
SpecLoops == InitWith({<<>>}) /\ [][NextLoops]_vars /\ WF_vars(LoadsLoop)

----------------------------------------------------------------------------
(* Round trip *)

\* v holds no float: the text of a float is Python's, not the encoder's
RECURSIVE NoFloats(_)
NoFloats(v) == v.t # "float" /\ \A i \in 1..Len(v.kids) : NoFloats(v.kids[i])

\* C1: for every value v that loads returned (floats aside),
\* loads(dumps(v)) returns, and returns a value equal to v.
RoundTrip ==
    (reloaded.status # "none" /\ indent = IndentNone /\ NoFloats(loaded.value))
        => (reloaded.status = "returned" /\ reloaded.value = loaded.value)

----------------------------------------------------------------------------
(* Key order *)

\* the text is the run of pairs inside "m={" and "}"
Wrapped == Len(text) >= 4 /\ text[1] = "m"

\* the run of pairs "k=v " of the text
PairRun == IF Wrapped THEN SubSeq(text, 4, Len(text) - 1) ELSE text

NumPairs == Len(PairRun) \div 4

KeyAt(i) == PairRun[4 * i - 3]

ValueAt(i) == PairRun[4 * i - 1]

IsPairRun ==
    /\ Len(PairRun) = 4 * NumPairs
    /\ \A i \in 1..NumPairs :
        /\ KeyAt(i) \in PairKeys
        /\ PairRun[4 * i - 2] = "="
        /\ ValueAt(i) \in PairDigits
        /\ PairRun[4 * i] = " "

\* the distinct keys of the first n pairs, in the order of their first
\* occurrence in the text
RECURSIVE FirstOccurrences(_)
FirstOccurrences(n) ==
    IF n = 0 THEN <<>>
    ELSE FirstOccurrences(n - 1)
         \o (IF \E j \in 1..(n - 1) : KeyAt(j) = KeyAt(n) THEN <<>> ELSE <<<<KeyAt(n)>>>>)

\* the value of the last pair of the text with this key
LastValue(key) ==
    ValueAt(CHOOSE i \in 1..NumPairs :
                /\ <<KeyAt(i)>> = key
                /\ \A j \in (i + 1)..NumPairs : <<KeyAt(j)>> # key)

\* the map decoded from the run of pairs
PairMap == IF Wrapped THEN loaded.value.kids[1] ELSE loaded.value

\* "k = v" and a newline for each pair of the map m, in its iteration order
PairLines(m, lead) ==
    Flatten([j \in 1..Len(m.keys) |->
                lead \o m.keys[j] \o <<" ", "=", " ">> \o IntToStr(m.kids[j].n) \o <<"\n">>])

\* C2: the keys of a decoded map are the distinct keys of the text in the
\* order of their first occurrence, each bound to the value of its last
\* occurrence, and dumps emits the pairs in that order.
KeyOrder ==
    /\ (loaded.status = "returned" /\ IsPairRun)
        => /\ PairMap.t = "map"
           /\ PairMap.keys = FirstOccurrences(NumPairs)
           /\ Len(PairMap.kids) = Len(PairMap.keys)
           /\ \A j \in 1..Len(PairMap.keys) :
                PairMap.kids[j] = PyInt(DigitValue(LastValue(PairMap.keys[j])))
    /\ (dumped.done /\ IsPairRun /\ NumPairs > 0)
        => dumped.out =
            IF Wrapped
            THEN <<"m", " ", "=", " ", "{", "\n">>
                 \o PairLines(PairMap, IndentUnit(indent)) \o <<"}", "\n">>
            ELSE PairLines(PairMap, <<>>)

\* a key comes back after another one, with another value, and is dumped
KeyOrderWitness ==
    /\ dumped.done
    /\ IsPairRun
    /\ NumPairs >= 3
    /\ KeyAt(1) = KeyAt(3)
    /\ KeyAt(1) # KeyAt(2)
    /\ ValueAt(1) # ValueAt(3)

----------------------------------------------------------------------------
(* Failures *)

\* the 1-indexed line after the first n bytes of s were consumed
LineAfter(s, n) == 1 + Cardinality({i \in 1..Min(n, Len(s)) : s[i] = "\n"})

\* the 1-indexed column after the first n bytes of s were consumed
ColumnAfter(s, n) ==
    1 + Cardinality({i \in 1..Min(n, Len(s)) : \A j \in i..Min(n, Len(s)) : s[j] # "\n"})

\* the exception of the call carries the position the stream was left at
LocatedAtPosition(o) ==
    /\ o.exc.line = LineAfter(text, o.pos)
    /\ o.exc.column = ColumnAfter(text, o.pos)

\* C3: a call of loads or load that does not return a value raises
\* ParseException, never another kind of error, and the exception carries
\* the line and the column of the position the stream was read up to.
FailuresAreParseExceptions ==
    \A o \in {loaded, streamed} :
        o.status = "raised" => (o.exc.type = "ParseException" /\ LocatedAtPosition(o))

\* the call raised ParseException with this message
RaisedWith(o, msg) ==
    o.status = "raised" /\ o.exc.type = "ParseException" /\ o.exc.msg = msg

\* the text is a pair whose value is a list of numbers that is never closed
ListLeftOpen ==
    /\ Len(text) >= 3
    /\ SubSeq(text, 1, 3) = <<"a", "=", "[">>
    /\ \A i \in 4..Len(text) : text[i] \in {"1", " ", "\n"}

\* C4: when the input ends after "[" and before the closing "]", loads and
\* load fail with the parse error 'Unexpected end-of-stream'.
UnterminatedList ==
    \A o \in {loaded, streamed} :
        (o.status # "none" /\ ListLeftOpen) => RaisedWith(o, "Unexpected end-of-stream")

\* the text has a "{" and neither a "}" nor a quoted string
MapLeftOpen ==
    /\ \E i \in 1..Len(text) : text[i] = "{"
    /\ \A i \in 1..Len(text) : text[i] \notin {"}", "\""}

\* C5: when the input ends inside a map opened with "{" and not closed,
\* loads and load raise a parse error and return no value.
UnterminatedMap ==
    \A o \in {loaded, streamed} :
        (o.status # "none" /\ MapLeftOpen)
            => (o.status = "raised" /\ o.exc.type = "ParseException")

----------------------------------------------------------------------------
(* The top level *)

\* the text is empty or holds only whitespace
Blank == \A i \in 1..Len(text) : <<text[i]>> \in _WHITESPACE_SET

\* C7: the empty input and an input of whitespace decode to the empty map,
\* with loads and with load.
EmptyDocument ==
    \A o \in {loaded, streamed} :
        (o.status # "none" /\ Blank)
            => (o.status = "returned" /\ o.value = PyDict(<<>>, <<>>))

----------------------------------------------------------------------------
(* Triple-quoted strings *)

\* the number of quotes in a row from byte i of the text on
RECURSIVE QuotesFrom(_)
QuotesFrom(i) == IF i <= Len(text) /\ text[i] = "\"" THEN 1 + QuotesFrom(i + 1) ELSE 0

\* the run of quotes that follows a="""x
ClosingRun == QuotesFrom(7)

\* C10: a run of 3, 4 or 5 quotes ends a triple-quoted string with 0, 1 or 2
\* quotes appended to its content, and a run of six or more makes loads
\* fail with a parse error, whatever follows the run.
TripleQuoteTermination ==
    /\ (loaded.status = "returned" /\ ClosingRun \in 3..5)
        => loaded.value.kids[1] = PyStr(<<"x">> \o Quotes(ClosingRun - 3))
    /\ (loaded.status # "none" /\ ClosingRun >= 6)
        => (loaded.status = "raised" /\ loaded.exc.type = "ParseException")

----------------------------------------------------------------------------
(* Bare words *)

\* the run of letters, digits and underscores from byte i of the text on
RECURSIVE WordFrom(_)
WordFrom(i) ==
    IF i <= Len(text) /\ text[i] \in Letters \cup Digits \cup {"_"}
    THEN <<text[i]>> \o WordFrom(i + 1)
    ELSE <<>>

\* the word that stands for the value of the pair a=...
BareWord == WordFrom(3)

Keywords ==
    {[word |-> <<"t", "r", "u", "e">>, literal |-> PyBool(TRUE)],
     [word |-> <<"f", "a", "l", "s", "e">>, literal |-> PyBool(FALSE)],
     [word |-> <<"n", "u", "l", "l">>, literal |-> PyNone]}

StartsWith(s, prefix) == Len(s) >= Len(prefix) /\ SubSeq(s, 1, Len(prefix)) = prefix

\* the text is a=, then a word that is no keyword and no number
IsBareWordPair ==
    /\ StartsWith(text, <<"a", "=">>)
    /\ BareWord # <<>>
    /\ \A k \in Keywords : BareWord # k.word
    /\ ~IsIntLiteral(BareWord)
    /\ ~IsFloatLiteral(BareWord)

\* C6 as the code has it: loads never binds the key to a bare word as a
\* string.  It raises ParseException, unless the word begins with true,
\* false or null: then the key is bound to that literal and the rest of
\* the word is read as the next key, and the call may return.
WordValue ==
    (loaded.status # "none" /\ IsBareWordPair)
        => \/ loaded.status = "raised" /\ loaded.exc.type = "ParseException"
           \/ /\ loaded.status = "returned"
              /\ Len(loaded.value.keys) >= 2
              /\ \E k \in Keywords :
                    /\ StartsWith(BareWord, k.word)
                    /\ loaded.value.keys[1] = <<"a">>
                    /\ loaded.value.kids[1] = k.literal
                    /\ loaded.value.keys[2] = SubSeq(BareWord, Len(k.word) + 1, Len(BareWord))

\* a bare word made loads raise 'Invalid character'
WordValueWitness == IsBareWordPair /\ RaisedWith(loaded, "Invalid character")

\* C6: for a pair whose value is a bare word that is no keyword and no
\* number, loads succeeds and binds the key to the word as a string.
WordAsString ==
    (loaded.status # "none" /\ IsBareWordPair)
        => /\ loaded.status = "returned"
           /\ Len(loaded.value.keys) >= 1
           /\ loaded.value.keys[1] = <<"a">>
           /\ loaded.value.kids[1] = PyStr(BareWord)

----------------------------------------------------------------------------
(* The text that dumps writes *)

\* the first key of the map that was dumped
FirstKey == loaded.value.keys[1]

Quoted(s) == <<"\"">> \o EscapeCharacters(s) \o <<"\"">>

\* the dumped text begins with the key written as e
BeginsWithKey(e) == StartsWith(dumped.out, e \o <<" ", "=", " ">>)

HasOtherThanIdentifier(s) == \E i \in 1..Len(s) : s[i] \notin Letters \cup Digits \cup {"_"}

HasWhitespace(s) == \E i \in 1..Len(s) : s[i] \in {" ", "\t", "\n", "\r"}

\* C8 as the code has it: dumps writes a key in double quotes if and only
\* if the key holds a character that is no ASCII letter, digit or
\* underscore; a key of only such characters is written bare.
KeyQuoting ==
    (dumped.done /\ Len(loaded.value.keys) >= 1)
        => BeginsWithKey(IF HasOtherThanIdentifier(FirstKey) THEN Quoted(FirstKey)
                         ELSE FirstKey)

\* a key with a hyphen and no whitespace was written in quotes
KeyQuotingWitness ==
    /\ dumped.done
    /\ Len(loaded.value.keys) >= 1
    /\ \E i \in 1..Len(FirstKey) : FirstKey[i] = "-"
    /\ ~HasWhitespace(FirstKey)
    /\ BeginsWithKey(Quoted(FirstKey))

\* C8: dumps writes a key in double quotes if and only if the key holds a
\* whitespace character; every other key is written bare, with only its
\* escapable characters substituted.
KeyQuotedForWhitespace ==
    (dumped.done /\ Len(loaded.value.keys) >= 1)
        => BeginsWithKey(IF HasWhitespace(FirstKey) THEN Quoted(FirstKey)
                         ELSE EscapeCharacters(FirstKey))

\* unit, d times
Repeat(unit, d) == Flatten([i \in 1..d |-> unit])

\* the indent unit of an indent argument
LayoutUnit(ind) ==
    IF ind.kind = "str" THEN ind.s
    ELSE IF ind.kind = "int" /\ ind.n > 0 THEN [i \in 1..ind.n |-> " "]
    ELSE <<>>

\* the text of the value v at depth d; blank is what stands for the pairs
\* of a map that has none
RECURSIVE Layout(_, _, _, _)
Layout(v, unit, d, blank) ==
    CASE v.t = "map" ->
            (IF d > 0 THEN <<"{", "\n">> ELSE <<>>)
            \o (IF v.keys = <<>> THEN blank
                ELSE Flatten([j \in 1..Len(v.keys) |->
                        Repeat(unit, d) \o _encode_key(v.keys[j]) \o <<" ", "=", " ">>
                        \o Layout(v.kids[j], unit, d + 1, blank) \o <<"\n">>]))
            \o (IF d > 0 THEN Repeat(unit, d - 1) \o <<"}">> ELSE <<>>)
      [] v.t = "list" ->
            <<"[">>
            \o Flatten([j \in 1..Len(v.kids) |->
                    (IF j = 1 THEN <<>> ELSE <<",", " ">>)
                    \o Layout(v.kids[j], unit, d + 1, blank)])
            \o <<"]">>
      [] OTHER -> _encode(v, unit, d)

\* C9 as the code has it: at depth 0 a map is its pairs, each "key = value"
\* and a newline; at depth d > 0 it is "{", a newline, each pair after d
\* indent units and before a newline, then d-1 units and "}"; a map with no
\* pair has one newline where its pairs would be.  The unit is empty for
\* None, 0 and negative numbers, N spaces for N > 0, the string for a string.
CanonicalLayout ==
    dumped.done => dumped.out = Layout(loaded.value, LayoutUnit(indent), 0, <<"\n">>)

\* a map with a pair inside a map inside the document, dumped with an indent
CanonicalLayoutWitness ==
    /\ dumped.done
    /\ indent = IndentInt(2)
    /\ \E i \in 1..Len(loaded.value.kids) :
        /\ loaded.value.kids[i].t = "map"
        /\ \E j \in 1..Len(loaded.value.kids[i].kids) :
            /\ loaded.value.kids[i].kids[j].t = "map"
            /\ loaded.value.kids[i].kids[j].keys # <<>>

\* C9: at depth 0 a map is its pairs, each "key = value" and a newline; at
\* depth d > 0 it is "{", a newline, each pair after d indent units and
\* before a newline, then d-1 units and "}", whatever the number of pairs.
LayoutOfPairsOnly ==
    dumped.done => dumped.out = Layout(loaded.value, LayoutUnit(indent), 0, <<>>)

----------------------------------------------------------------------------
(* Bracket raw strings *)

\* "]=]" stands at byte i of the text
TerminatorAt(i) == i + 2 <= Len(text) /\ SubSeq(text, i, i + 2) = <<"]", "=", "]">>

\* the text is a=[=[ and more
RawOpened == StartsWith(text, <<"a", "=", "[", "=", "[">>)

HasTerminator == RawOpened /\ \E i \in 6..Len(text) : TerminatorAt(i)

\* where the first "]=]" after the opener stands
FirstTerminator ==
    CHOOSE i \in 6..Len(text) : TerminatorAt(i) /\ \A j \in 6..(i - 1) : ~TerminatorAt(j)

\* C11: a value that begins with "[=" is never a list.  After "[=[" it is
\* the string of the bytes up to the first "]=]", taken as they are; when
\* the value does not begin with "[=[" or no "]=]" follows, loads and load
\* fail with a parse error.
BracketString ==
    \A o \in {loaded, streamed} :
        (o.status # "none" /\ StartsWith(text, <<"a", "=", "[", "=">>))
            => /\ ~HasTerminator => (o.status = "raised" /\ o.exc.type = "ParseException")
               /\ o.status = "returned"
                    => /\ o.value.keys[1] = <<"a">>
                       /\ o.value.kids[1] = PyStr(SubSeq(text, 6, FirstTerminator - 1))
               /\ (HasTerminator /\ FirstTerminator + 2 = Len(text)) => o.status = "returned"

\* a raw string with a quote and a newline inside was decoded
BracketStringWitness ==
    /\ loaded.status = "returned"
    /\ HasTerminator
    /\ \E i \in 6..(FirstTerminator - 1) : text[i] = "\""
    /\ \E i \in 6..(FirstTerminator - 1) : text[i] = "\n"
    /\ loaded.value.kids[1].t = "str"

----------------------------------------------------------------------------
(* The two streams *)

\* C12: decoding a text from memory (loads) and from a stream (load) ends
\* the same way: the same value, or the same kind of error with the same
\* message, line and column.
StreamsAgree ==
    (loaded.status # "none" /\ streamed.status # "none")
        => /\ loaded.status = streamed.status
           /\ loaded.value = streamed.value
           /\ loaded.exc = streamed.exc

----------------------------------------------------------------------------
(* The canonical form *)

\* C13: the text c that dumps writes for a decoded value is decodable, and
\* dumps of the value decoded from c, with the same indent, is c again.
CanonicalFixedPoint ==
    reloaded.status # "none"
        => /\ reloaded.status = "returned"
           /\ dumps(reloaded.value, indent) = dumped.out

----------------------------------------------------------------------------
(* Comments *)

HasComment == \E i \in 1..Len(text) : text[i] = "/"

\* where the comment of the text starts
CommentStart == CHOOSE i \in 1..Len(text) : text[i] = "/" /\ \A j \in 1..(i - 1) : text[j] # "/"

\* "*/" stands at byte i, after the "/*" that starts the comment
ClosedAt(i) ==
    /\ text[CommentStart + 1] = "*"
    /\ i >= CommentStart + 2
    /\ i + 1 <= Len(text)
    /\ text[i] = "*" /\ text[i + 1] = "/"

\* the line of the "//" comment ends before byte i
LineEndsAt(i) == text[CommentStart + 1] = "/" /\ i > CommentStart + 1 /\ text[i] = "\n"

\* the comment is closed by "*/", or is a "//" comment with its end of line
HasClosedComment ==
    /\ HasComment
    /\ CommentStart < Len(text)
    /\ \E i \in 1..Len(text) : ClosedAt(i) \/ LineEndsAt(i)

\* the first byte after the comment
AfterComment ==
    IF text[CommentStart + 1] = "*"
    THEN 2 + CHOOSE i \in 1..Len(text) : ClosedAt(i) /\ \A j \in 1..(i - 1) : ~ClosedAt(j)
    ELSE CHOOSE i \in 1..Len(text) : LineEndsAt(i) /\ \A j \in 1..(i - 1) : ~LineEndsAt(j)

\* the text without its comment
Uncommented == SubSeq(text, 1, CommentStart - 1) \o SubSeq(text, AfterComment, Len(text))

\* C14: a closed comment put where whitespace separates two tokens of a
\* text that decodes leaves the decoded value as it was.
CommentTransparent ==
    (loaded.status # "none" /\ HasClosedComment /\ loads(Uncommented).status = "returned")
        => /\ loaded.status = "returned"
           /\ loaded.value = loads(Uncommented).value

----------------------------------------------------------------------------
(* The separator *)

\* the first key of the text, when it is a bare identifier
BareKey == WordFrom(1)

\* the bytes after the first key, from the first that is no whitespace on
RECURSIVE AfterWhitespace(_)
AfterWhitespace(i) ==
    IF i <= Len(text) /\ _is_whitespace(<<text[i]>>) THEN AfterWhitespace(i + 1) ELSE i

AfterKey == AfterWhitespace(Len(BareKey) + 1)

\* the first key is followed by a byte that is no separator
SeparatorMissing ==
    /\ BareKey # <<>>
    /\ AfterKey <= Len(text)
    /\ text[AfterKey] \notin {"=", ":"}

\* C15: when the byte that follows a key, whitespace aside, is neither "="
\* nor ":", loads and load fail: the token that follows is not accepted as
\* the value of the key.
SeparatorRequired ==
    \A o \in {loaded, streamed} : (o.status # "none" /\ SeparatorMissing) => o.status = "raised"

----------------------------------------------------------------------------
(* Keywords *)

\* the value of the pair a=... is the word of k and some more letters,
\* digits or underscores
LongerThan(k) == StartsWith(BareWord, k.word) /\ BareWord # k.word

\* C16: true, false and null are decoded only from a whole token: the
\* keyword itself decodes to its literal, and a longer word that begins
\* with a keyword is never decoded as that literal with the rest of the
\* word read as something else.
KeywordWholeToken ==
    (loaded.status = "returned" /\ StartsWith(text, <<"a", "=">>))
        => \A k \in Keywords :
            /\ BareWord = k.word => loaded.value.kids[1] = k.literal
            /\ LongerThan(k) => loaded.value.kids[1] # k.literal

----------------------------------------------------------------------------
(* Invalid numbers *)

\* the run of bytes from byte i of the text up to whitespace, ",", "]",
\* "}" or the end
RECURSIVE RunFrom(_)
RunFrom(i) ==
    IF i <= Len(text) /\ text[i] \notin {" ", "\t", "\n", "\r", ",", "]", "}"}
    THEN <<text[i]>> \o RunFrom(i + 1)
    ELSE <<>>

\* the value of the pair a=... is a run that is read as a number and is
\* neither an integer nor a floating-point number
InvalidRun ==
    /\ StartsWith(text, <<"a", "=">>)
    /\ RunFrom(3) # <<>>
    /\ text[3] \notin {"t", "f", "n", "{", "\"", "[", "/"}
    /\ ~IsIntLiteral(RunFrom(3))
    /\ ~IsFloatLiteral(RunFrom(3))

\* C17: a run at a value position that is neither an integer nor a
\* floating-point number makes loads fail with 'Invalid character', at the
\* line and column of the first byte of the run.
InvalidNumberLocation ==
    (loaded.status # "none" /\ InvalidRun)
        => /\ RaisedWith(loaded, "Invalid character")
           /\ loaded.exc.line = 1
           /\ loaded.exc.column = 3

----------------------------------------------------------------------------
(* skip and read *)

\* C18: on both streams and wherever the cursor stands, skip(count) leaves
\* the stream as read(count) does and fails when read(count) fails; the
\* cursor of a MemoryInputStream never passes the end of its buffer.
SkipIsRead ==
    /\ viaSkip.st = viaRead.st
    /\ viaSkip.exc = viaRead.exc
    /\ stream.kind = "memory" => stream.pos <= Len(stream.buf)

----------------------------------------------------------------------------
(* Termination *)

----------------------------------------------------------------------------
(* Whole input *)

\* C20: when loads returns a value it has consumed every byte of the text: a
\* `}` at the top level does not end the decode before the end of the text.
WholeInputRead ==
    \A o \in {loaded, streamed} : o.status = "returned" => o.pos >= Len(text)

====
